---- MODULE Spec2Model ----
(***************************************************************************)
(* A model of the Ohm64 controller script (src/js/OHM64.js, the revision   *)
(* of lines 1-537: ButtonMap, render task, global blink speed).            *)
(*                                                                         *)
(* The script runs on Max's cooperative scheduler: every message handler   *)
(* and every Task callback runs to completion, so each is one action.      *)
(* JavaScript values are modelled by what the script does with them:       *)
(* numbers and booleans are kept apart (JsNum, JsBool), `undefined' and    *)
(* `null' are the markers undefined and null, an array with holes is a     *)
(* function on the set of its assigned keys, and an uncaught TypeError or  *)
(* ReferenceError ends the handler where it is thrown.                     *)
(***************************************************************************)
EXTENDS Integers, Sequences, FiniteSets, TLC

VARIABLES
    viewFunction,       \* Ohm64.viewFunction: the global view function
    buttonStates,       \* Ohm64.buttonStates: key -> Ohm64_Button
    midiButtonMap,      \* Ohm64.midiButtonMap: undefined, or note -> buttonId
    sysexMessageCodes,  \* Ohm64.sysexMessageCodes: undefined, or the codes
    blinkSpeed,         \* Ohm64.blinkSpeed
    renderTask,         \* Ohm64.renderTask: whether the field is set, and the
                        \* number of render Tasks the scheduler repeats
    orphanTasks,        \* buttonIds of untracked Buttons whose Task still repeats
    wire,               \* sysex codes the device has sent, not yet delivered
    frameBytes,         \* history: codes fed since the latest start marker
    restarted,          \* history: the latest start marker arrived while a
                        \* message was partially accumulated
    emitted,            \* frames handed to midiInterface by the last handler
    lastOp,             \* history: the handler that ran last
    result              \* history: how the last handler ended

vars == <<viewFunction, buttonStates, midiButtonMap, sysexMessageCodes,
          blinkSpeed, renderTask, orphanTasks, wire, frameBytes, restarted,
          emitted,
          lastOp, result>>

-----------------------------------------------------------------------------
(* JavaScript values *)

\* `undefined' as a buttonId, an array key or a missing sysex field.
undefined == -2

\* `null' as a cell of OHM64_INDEX_MASK.
null == -1

JsNum(n) == [t |-> "number", v |-> n]

JsBool(b) == [t |-> "boolean", v |-> IF b THEN 1 ELSE 0]

BUTTON_OFF == 0

BUTTON_ON == 1

\* ToBoolean: false, 0 are falsy; true and every other number are truthy.
Truthy(x) == x.v # 0

\* Boolean(x)
Boolean(x) == JsBool(Truthy(x))

\* x == n for a number n: a boolean is converted to 0 or 1 first.
LooseEq(x, n) == x.v = n

\* f with key k set to v (an assignment f[k] = v to an array or object).
Put(f, k, v) == (k :> v) @@ f

\* The array or object with no key assigned.
Empty == <<>>

\* TRUE. Reading v makes TLC compute it where this stands, so that a loop's
\* accumulator is a value at every turn and not a chain of deferred
\* computations as deep as the loop is long.
Now(v) == DOMAIN v = DOMAIN v

\* for (i = lo; i <= hi; i++) acc = Body(i, acc). The range is run in two
\* halves, the first before the second, which keeps the evaluation shallow.
RECURSIVE For(_, _, _, _)
For(Body(_, _), lo, hi, acc) ==
    IF lo > hi THEN acc
    ELSE IF lo = hi THEN Body(lo, acc)
    ELSE LET mid  == (lo + hi) \div 2
             half == For(Body, lo, mid, acc)
         IN IF Now(half) THEN For(Body, mid + 1, hi, half) ELSE acc

-----------------------------------------------------------------------------
(* SysexMessage, OHM64.js 490-520 *)

CODE_MESSAGE_START == 240

CODE_MESSAGE_END == 247

CODE_MESSAGE_HEADER1 == 0

CODE_MESSAGE_HEADER2 == 1

CODE_MESSAGE_HEADER3 == 97

CODE_MESSAGE_DEVICE_ID == 2

OPERATION_BUTTON_MAP == 11

\* message.shift() taken k times: the k-th element, or undefined.
Shifted(message, k) == IF k <= Len(message) THEN message[k] ELSE undefined

\* The constructor: six shift(), one pop(), the rest is the data. The array
\* it empties is the caller's, so `data' is also what the caller keeps.
SysexMessage(message) ==
    LET rest == IF Len(message) > 6 THEN SubSeq(message, 7, Len(message))
                ELSE <<>>
    IN [messageStart |-> Shifted(message, 1),
        header1      |-> Shifted(message, 2),
        header2      |-> Shifted(message, 3),
        header3      |-> Shifted(message, 4),
        deviceId     |-> Shifted(message, 5),
        operation    |-> Shifted(message, 6),
        messageEnd   |-> IF rest = <<>> THEN undefined ELSE rest[Len(rest)],
        data         |-> IF rest = <<>> THEN <<>>
                         ELSE SubSeq(rest, 1, Len(rest) - 1)]

\* The markers tested and the manufacturer header not.
isValidMarkersOnly(m) ==
    /\ m.messageStart = CODE_MESSAGE_START
    /\ m.messageEnd = CODE_MESSAGE_END
    /\ m.operation # undefined

isValid(m) ==
    /\ m.messageStart = CODE_MESSAGE_START
    /\ m.header1 = CODE_MESSAGE_HEADER1
    /\ m.header2 = CODE_MESSAGE_HEADER2
    /\ m.header3 = CODE_MESSAGE_HEADER3
    /\ m.deviceId = CODE_MESSAGE_DEVICE_ID
    /\ m.messageEnd = CODE_MESSAGE_END
    /\ m.operation # undefined

\* The loop index used as the id.
BuildButtonMapByIndex(data) ==
    For(LAMBDA i, loop :
            IF i % 2 = 1 THEN loop ELSE Put(loop, data[i + 1], i),
        0, Len(data) - 1, Empty)

\* The loop of parseSysexCode over sysexMessage.data: the values at even
\* indices are notes, numbered in order; the others are skipped.
BuildButtonMap(data) ==
    For(LAMBDA i, loop :
            IF i % 2 = 1 THEN loop
            ELSE [midiButtonMap |-> Put(loop.midiButtonMap, data[i + 1],
                                        loop.buttonId),
                  buttonId      |-> loop.buttonId + 1],
        0, Len(data) - 1,
        [midiButtonMap |-> Empty, buttonId |-> 0]).midiButtonMap

-----------------------------------------------------------------------------
(* Ohm64_Button, OHM64.js 350-488 *)

VIEW_TRIGGER == "trigger"

VIEW_TOGGLE == "toggle"

VIEW_BLINK == "blink"

\* Ohm64_Button.init. liveTasks counts the Tasks bound to this Button that
\* repeat (were started and not cancelled); blinkTask is the handle the
\* Button holds: "null", or the Task it names, "running" or "cancelled".
Ohm64_Button(buttonId, viewFunctionName, speed) ==
    [buttonId     |-> buttonId,
     state        |-> JsNum(BUTTON_OFF),
     viewFunction |-> viewFunctionName,
     isBlinking   |-> "false",
     blinkSpeed   |-> speed,
     blinkTask    |-> "null",
     liveTasks    |-> 0]

\* The key-down test forgotten.
viewToggleOnRelease(b, isKeyDown) ==
    [b EXCEPT !.state = IF LooseEq(b.state, BUTTON_OFF)
                        THEN JsNum(BUTTON_ON) ELSE JsNum(BUTTON_OFF)]

viewToggle(b, isKeyDown) ==
    IF ~Truthy(isKeyDown) THEN b
    ELSE [b EXCEPT !.state = IF LooseEq(b.state, BUTTON_OFF)
                             THEN JsNum(BUTTON_ON) ELSE JsNum(BUTTON_OFF)]

\* The state latched: a release does not unlight the Button.
viewTriggerLatched(b, state) ==
    IF Truthy(state) THEN [b EXCEPT !.state = state] ELSE b

viewTrigger(b, state) == [b EXCEPT !.state = state]

\* The flag cleared and the Task left to repeat.
cancelBlinkFlagOnly(b) == [b EXCEPT !.isBlinking = "false"]

\* blinkTask.cancel() when the handle is set, then isBlinking = false.
cancelBlink(b) ==
    [b EXCEPT !.liveTasks = IF b.blinkTask = "running" THEN @ - 1 ELSE @,
              !.blinkTask = IF b.blinkTask = "null" THEN "null" ELSE "cancelled",
              !.isBlinking = "false"]

\* The stop press that forgets to cancel the Task.
viewBlinkNoCancel(b, isKeyDown) ==
    IF ~Truthy(isKeyDown) THEN b
    ELSE IF b.isBlinking # "true"
         THEN [b EXCEPT !.blinkTask = "running",
                        !.liveTasks = @ + 1,
                        !.isBlinking = "true"]
         ELSE [b EXCEPT !.isBlinking = "false", !.state = JsNum(BUTTON_OFF)]

viewBlink(b, isKeyDown) ==
    IF ~Truthy(isKeyDown) THEN b
    ELSE IF b.isBlinking # "true"
         THEN [b EXCEPT !.blinkTask = "running",
                        !.liveTasks = @ + 1,
                        !.isBlinking = "true"]
         ELSE [cancelBlink(b) EXCEPT !.state = JsNum(BUTTON_OFF)]

\* Ohm64_Button.press: the view function chosen at construction.
press(b, state) ==
    CASE b.viewFunction = VIEW_TOGGLE  -> viewToggle(b, state)
      [] b.viewFunction = VIEW_TRIGGER -> viewTrigger(b, state)
      [] b.viewFunction = VIEW_BLINK   -> viewBlink(b, state)

\* Ohm64_Button.clear
ButtonClear(b) ==
    [cancelBlink(b) EXCEPT !.state = JsNum(BUTTON_OFF),
                           !.isBlinking = "null",
                           !.blinkTask = "null"]

\* The callback lights the Button whatever its state is.
BlinkCallbackLight(b) == [b EXCEPT !.state = JsNum(BUTTON_ON)]

\* The callback of the blink Task: this.viewToggle(true).
BlinkCallback(b) == viewToggle(b, JsBool(TRUE))

-----------------------------------------------------------------------------
(* Ohm64: the button table, OHM64.js 164-177 and 337-344 *)

OHM64_INDEX_MASK ==
    << <<0, 48, 33, 18, 3, 51, 36, 21, 6, 54, null, 39, null, null>>,
       <<8, 56, 41, 26, 11, 59, 44, 29, 14, 62, null, 47, null, null>>,
       <<16, 1, 49, 34, 19, 4, 52, 37, 22, 7, null, 55, null, null>>,
       <<24, 9, 57, 42, 27, 12, 60, 45, 30, 15, null, 63, null, null>>,
       <<32, 17, 2, 50, 35, 20, 5, 53, 38, 23, null, null, null, null>>,
       <<40, 25, 10, 58, 43, 28, 13, 61, 46, 31, null, null, null, null>> >>

\* midiButtonMap[midiNote]: the id the map gives the note, or undefined.
MapLookup(map, midiNote) ==
    IF midiNote \in DOMAIN map.m THEN map.m[midiNote] ELSE undefined

\* The lazy construction of getButton: buttonStates with a Button under
\* buttonId, made with the current view function and blink speed if absent.
Tracked(bs, buttonId, view, speed) ==
    IF buttonId \in DOMAIN bs THEN bs
    ELSE Put(bs, buttonId, Ohm64_Button(buttonId, view, speed))

\* getButton(midiNote) with a ButtonMap: the key of the Button it returns.
\* (Without a ButtonMap it returns null; the callers test map.defined.)
getButton(map, midiNote) == MapLookup(map, midiNote)

-----------------------------------------------------------------------------
(* Ohm64.sync and getColumnChecksum, OHM64.js 250-290 *)

\* A null cell read as a lit button.
CellIsSetNullLit(index, hasButton, state) ==
    IF index = null THEN JsBool(TRUE)
    ELSE IF ~hasButton THEN JsBool(FALSE) ELSE state

\* isSet = (index === null || button === null) ? false : button.state
CellIsSet(index, hasButton, state) ==
    IF index = null \/ ~hasButton THEN JsBool(FALSE) ELSE state

\* The exponent never reset.
NextExponentNoReset(i, exponent) == exponent + 1

\* The exponent of the next cell: reset after the 7th value.
NextExponent(i, exponent) == IF i = 6 THEN 0 ELSE exponent + 1

\* getColumnChecksum(column). The loop carries LL, HH, the exponent and
\* buttonStates, which getButton extends as it goes; without a ButtonMap
\* getButton returns null.
getColumnChecksum(map, view, speed, buttons, column) ==
    LET indexMask == OHM64_INDEX_MASK[column + 1]
    IN For(LAMBDA i, loop :
            LET index  == indexMask[i + 1]
                key    == getButton(map, index)
                bs     == IF map.defined
                          THEN Tracked(loop.bs, key, view, speed)
                          ELSE loop.bs
                isSet  == CellIsSet(index, map.defined, bs[key].state)
                columnValue == 2 ^ loop.exponent
                               * (IF Truthy(isSet) THEN 0 ELSE 1)
            IN [LL |-> IF i < 7 THEN loop.LL + columnValue ELSE loop.LL,
                HH |-> IF i < 7 THEN loop.HH ELSE loop.HH + columnValue,
                exponent |-> NextExponent(i, loop.exponent),
                bs |-> bs],
           0, Len(indexMask) - 1,
           [LL |-> 0, HH |-> 0, exponent |-> 0, bs |-> buttons])

SyncHeader == <<240, 0, 1, 97, 2, 4>>

\* The loop of sync: the command so far and buttonStates.
SyncLoop(map, view, speed, buttons) ==
    For(LAMBDA i, loop :
            LET checksum == getColumnChecksum(map, view, speed, loop.bs, i)
            IN [sysexCommand |-> loop.sysexCommand
                                   \o <<checksum.LL, checksum.HH>>,
                bs |-> checksum.bs],
        0, Len(OHM64_INDEX_MASK) - 1,
        [sysexCommand |-> SyncHeader, bs |-> buttons])

\* sync: the frame handed to midiInterface and buttonStates afterwards.
sync(map, view, speed, bs) ==
    LET done == SyncLoop(map, view, speed, bs)
    IN [frame |-> done.sysexCommand \o <<247>>, bs |-> done.bs]

-----------------------------------------------------------------------------
(* Bounds and inputs *)

\* Press values are 0..MaxValue: 0 a release, 1 a press, more a raw velocity.
MaxValue == 2

\* The device sends no further message while the script holds this many codes.
MaxBuffer == 12

\* The notes of button messages, and the ids given to clear.
Notes == {0, 1}

Views == {VIEW_TRIGGER, VIEW_TOGGLE, VIEW_BLINK}

ViewNames == Views \cup {"bogus"}

Frame(operation, payload) ==
    <<240, 0, 1, 97, 2, operation>> \o payload \o <<247>>

\* (note, placeholder) pairs for ids 0..n-1: the note of id k is k.
IdentityPairs(n) ==
    [i \in 1..(2 * n) |-> IF i % 2 = 1 THEN (i - 1) \div 2 ELSE 0]

\* (note, placeholder) pairs for ids 0..n-1: the note of id k is 63 - k.
ReversePairs(n) ==
    [i \in 1..(2 * n) |-> IF i % 2 = 1 THEN 63 - (i - 1) \div 2 ELSE 0]

\* What the device may send: button-map responses (the spec's example, a
\* swap of notes 0 and 1, a repeated note, an odd payload, an empty one, the
\* full identity map and a full reversed one), frames of other operations,
\* and malformed traffic.
Messages ==
    { Frame(11, <<5, 0, 9, 0, 13, 0>>),
      Frame(11, <<1, 0, 0, 0>>),
      Frame(11, <<5, 0, 9, 0, 5, 0>>),
      Frame(11, <<5, 0, 9>>),
      Frame(11, <<>>),
      Frame(11, IdentityPairs(64)),
      Frame(11, ReversePairs(64)),
      Frame(6, <<>>),
      Frame(127, <<1>>),
      <<240, 0, 2, 97, 2, 6, 247>>,
      <<240, 0, 1, 97, 2, 247>>,
      <<247>>,
      <<11, 5, 0, 247>>,
      <<240, 0, 1, 97, 2, 11, 5, 0>>,
      <<240, 0, 1>> }

\* The lists given to setStatesFromArray: n entries, those of `on' set to 1.
StateList(n, on) == [i \in 1..n |-> JsNum(IF (i - 1) \in on THEN 1 ELSE 0)]

ValidLists == {StateList(64, {}), StateList(64, {0}), StateList(64, 0..63)}

StateLists ==
    ValidLists \cup {StateList(63, 0..62), StateList(65, {0}), StateList(0, {})}

\* The replies of Spec: a button map that swaps notes 0 and 1, and the
\* identity on notes 0 and 1. Both leave the other notes unmapped.
MainMessages ==
    { Frame(11, <<1, 0, 0, 0>>),
      Frame(11, IdentityPairs(2)) }

-----------------------------------------------------------------------------
(* Ohm64: the handlers *)

\* The request without the operation it asks about.
RequestButtonMapNoOperand == <<240, 0, 1, 97, 2, 7, 247>>

RequestButtonMap == <<240, 0, 1, 97, 2, 7, 11, 247>>

\* The keys the for-in loop of clear() visits. getButton may add keys to
\* buttonStates while the loop runs, and the language leaves open whether
\* the loop then visits them: it visits the keys it started with
\* (visitAdded = FALSE) or also every key added on the way.
RECURSIVE Enumerated(_, _, _)
Enumerated(map, keys, visitAdded) ==
    LET more == keys \cup {getButton(map, index) : index \in keys}
    IN IF ~visitAdded \/ more = keys THEN keys
       ELSE Enumerated(map, more, visitAdded)

\* clear() without an id, OHM64.js 322-328: for every key of buttonStates,
\* getButton(key).clear(), the key read as a note; then a new empty array.
\* The targets are the keys whose Buttons clear() was called on. The
\* Buttons it did not reach are dropped with their Tasks still repeating.
ClearAllTargets(map, bs, visitAdded) ==
    {getButton(map, index) : index \in Enumerated(map, DOMAIN bs, visitAdded)}

ClearAllOrphans(map, bs, visitAdded) ==
    {bs[k].buttonId : k \in {x \in DOMAIN bs :
        x \notin ClearAllTargets(map, bs, visitAdded) /\ bs[x].liveTasks > 0}}

\* buttonStates.splice(start, 1): the element at start goes, the elements
\* after it move down by one; the property `undefined' is not an element.
Splice(bs, start) ==
    LET moved == {k \in DOMAIN bs : k # undefined /\ k > start}
        kept  == {k \in DOMAIN bs : k = undefined \/ k < start}
    IN [k \in kept \cup {x - 1 : x \in moved} |->
           IF k # undefined /\ k >= start THEN bs[k + 1] ELSE bs[k]]

\* The loop of setStatesFromArray: getButton(i).state = Boolean(states[i]).
SetStates(map, view, speed, states, buttons) ==
    For(LAMBDA i, bs :
            LET key == getButton(map, i)
            IN [Tracked(bs, key, view, speed)
                    EXCEPT ![key].state = Boolean(states[i + 1])],
        0, Len(states) - 1, buttons)

Init ==
    /\ viewFunction = VIEW_TRIGGER
    /\ buttonStates = Empty
    /\ midiButtonMap = [defined |-> FALSE, m |-> Empty]
    /\ sysexMessageCodes = [defined |-> FALSE, codes |-> <<>>]
    /\ blinkSpeed = 100
    /\ renderTask = [set |-> FALSE, live |-> 0]
    /\ orphanTasks = {}
    /\ wire = <<>>
    /\ frameBytes = <<>>
    /\ restarted = FALSE
    /\ emitted = <<RequestButtonMap,
                   sync(midiButtonMap, VIEW_TRIGGER, 100, Empty).frame>>
    /\ lastOp = "new"
    /\ result = "ok"

\* A message on the wire is delivered before the next handler runs. The
\* other handlers neither read nor write sysexMessageCodes, and before the
\* end marker parseSysexCode touches nothing else, so a handler run between
\* two codes of a message reaches no state that running it before the
\* first code does not.
Idle == wire = <<>>

\* The device puts a message on the wire, at any time (the transport
\* delivers it code by code to parseSysexCode).
DeviceSend(message) ==
    /\ Idle
    /\ Len(sysexMessageCodes.codes) + Len(message) <= MaxBuffer
          \/ message[1] = CODE_MESSAGE_START
    /\ wire' = message
    /\ UNCHANGED <<viewFunction, buttonStates, midiButtonMap, sysexMessageCodes,
                   blinkSpeed, renderTask, orphanTasks, frameBytes, restarted,
                   emitted, lastOp, result>>

\* The device answers the request that init() or requestMidiButtonMap() has
\* just emitted, before the next handler runs.
DeviceReply(message) ==
    /\ lastOp \in {"new", "init", "requestMidiButtonMap"}
    /\ DeviceSend(message)

\* The codes fed since the latest start marker (the marker included); when
\* none was fed since the latest end marker, the codes fed since that one.
FrameBytesAfter(fed, code) ==
    IF code = CODE_MESSAGE_START THEN <<code>>
    ELSE IF fed # <<>> /\ fed[Len(fed)] = CODE_MESSAGE_END THEN <<code>>
    ELSE fed \o <<code>>

\* Every code after the start marker taken to complete a message.
EndsMessageEager(code) == code # CODE_MESSAGE_START

\* if (code == SysexMessage.CODE_MESSAGE_END): the code completes a message.
EndsMessage(code) == code = CODE_MESSAGE_END

\* A message is partially accumulated: the buffer begins with a start
\* marker (a completed message leaves the buffer without its header).
Partial(buffer) ==
    /\ buffer.defined
    /\ buffer.codes # <<>>
    /\ buffer.codes[1] = CODE_MESSAGE_START

\* The start marker never empties the buffer.
FreshBufferKept(codes, code) == codes

\* if (code == SysexMessage.CODE_MESSAGE_START) this.sysexMessageCodes = [];
FreshBuffer(codes, code) ==
    IF code = CODE_MESSAGE_START THEN <<>> ELSE codes

\* parseSysexCode(code), OHM64.js 120-155.
parseSysexCode ==
    /\ wire # <<>>
    /\ LET code  == Head(wire)
           codes == FreshBuffer(sysexMessageCodes.codes, code) \o <<code>>
           sysexMessage == SysexMessage(codes)
       IN /\ wire' = Tail(wire)
          /\ frameBytes' = FrameBytesAfter(frameBytes, code)
          /\ restarted' = IF code = CODE_MESSAGE_START
                          THEN Partial(sysexMessageCodes)
                          ELSE restarted
          /\ lastOp' = "sysex"
          /\ emitted' = <<>>
          /\ UNCHANGED <<viewFunction, buttonStates, blinkSpeed, renderTask,
                         orphanTasks>>
          /\ IF ~sysexMessageCodes.defined /\ code # CODE_MESSAGE_START
             THEN \* undefined.push(code)
                  /\ result' = "TypeError"
                  /\ UNCHANGED <<sysexMessageCodes, midiButtonMap>>
             ELSE IF ~EndsMessage(code)
             THEN /\ result' = "ok"
                  /\ sysexMessageCodes' = [defined |-> TRUE, codes |-> codes]
                  /\ UNCHANGED midiButtonMap
             ELSE /\ sysexMessageCodes' =
                        [defined |-> TRUE, codes |-> sysexMessage.data]
                  /\ IF ~isValid(sysexMessage)
                     THEN /\ result' = "InvalidFrame"
                          /\ UNCHANGED midiButtonMap
                     ELSE /\ result' = "valid"
                          /\ IF sysexMessage.operation = OPERATION_BUTTON_MAP
                             THEN midiButtonMap' =
                                    [defined |-> TRUE,
                                     m |-> BuildButtonMap(sysexMessage.data)]
                             ELSE UNCHANGED midiButtonMap

\* buttonPress(buttonId, state), OHM64.js 106-108.
buttonPress(note, value) ==
    /\ Idle
    /\ lastOp' = "button"
    /\ emitted' = <<>>
    /\ UNCHANGED <<viewFunction, midiButtonMap, sysexMessageCodes, blinkSpeed,
                   renderTask, orphanTasks, wire, frameBytes, restarted>>
    /\ IF ~midiButtonMap.defined
       THEN \* getButton returns null: null.press(state)
            /\ result' = "TypeError"
            /\ UNCHANGED buttonStates
       ELSE LET key == getButton(midiButtonMap, note)
                bs  == Tracked(buttonStates, key, viewFunction, blinkSpeed)
            IN /\ buttonStates' = [bs EXCEPT ![key] = press(@, JsNum(value))]
               /\ result' = "ok"

\* A list longer than 64 let through.
ValidLengthAtLeast(states) == Len(states) >= 64

\* The validation of setStatesFromArray: states.length !== 64 is an error.
ValidLength(states) == Len(states) = 64

\* setStatesFromArray(states), OHM64.js 231-242.
setStatesFromArray(states) ==
    /\ Idle
    /\ lastOp' = "list"
    /\ emitted' = <<>>
    /\ UNCHANGED <<viewFunction, midiButtonMap, sysexMessageCodes, blinkSpeed,
                   renderTask, orphanTasks, wire, frameBytes, restarted>>
    /\ IF ~ValidLength(states)
       THEN /\ result' = "InvalidStateArray"
            /\ UNCHANGED buttonStates
       ELSE IF ~midiButtonMap.defined
       THEN \* getButton(0) returns null: null.state = ...
            /\ result' = "TypeError"
            /\ UNCHANGED buttonStates
       ELSE /\ buttonStates' = SetStates(midiButtonMap, viewFunction,
                                         blinkSpeed, states, buttonStates)
            /\ result' = "ok"

\* The new view stored and the Buttons of the old view left tracked.
setViewFunctionKept(name) ==
    /\ Idle
    /\ lastOp' = "setViewFunction"
    /\ emitted' = <<>>
    /\ UNCHANGED <<midiButtonMap, sysexMessageCodes, blinkSpeed, renderTask,
                   wire, frameBytes, restarted, buttonStates, orphanTasks>>
    /\ IF name \notin {VIEW_TOGGLE, VIEW_TRIGGER, VIEW_BLINK}
       THEN /\ result' = "ReferenceError"
            /\ UNCHANGED viewFunction
       ELSE /\ viewFunction' = name
            /\ result' = "ok"

\* setViewFunction(viewFunction), OHM64.js 193-202; the error branch names
\* the undeclared functionName.
setViewFunction(name) ==
    /\ Idle
    /\ lastOp' = "setViewFunction"
    /\ emitted' = <<>>
    /\ UNCHANGED <<midiButtonMap, sysexMessageCodes, blinkSpeed, renderTask,
                   wire, frameBytes, restarted>>
    /\ IF name \notin {VIEW_TOGGLE, VIEW_TRIGGER, VIEW_BLINK}
       THEN /\ result' = "ReferenceError"
            /\ UNCHANGED <<viewFunction, buttonStates, orphanTasks>>
       ELSE /\ viewFunction' = name
            /\ \E visitAdded \in BOOLEAN :
                  orphanTasks' = orphanTasks
                      \cup ClearAllOrphans(midiButtonMap, buttonStates,
                                           visitAdded)
            /\ buttonStates' = Empty
            /\ result' = "ok"

\* clear() and clear(buttonId), OHM64.js 313-329. parseInt(0) is falsy.
clearAll ==
    /\ Idle
    /\ lastOp' = "clear"
    /\ emitted' = <<>>
    /\ UNCHANGED <<viewFunction, midiButtonMap, sysexMessageCodes, blinkSpeed,
                   renderTask, wire, frameBytes, restarted>>
    /\ \E visitAdded \in BOOLEAN :
          orphanTasks' = orphanTasks
              \cup ClearAllOrphans(midiButtonMap, buttonStates, visitAdded)
    /\ buttonStates' = Empty
    /\ result' = "ok"

clear(buttonId) ==
    /\ Idle
    /\ lastOp' = "clear"
    /\ emitted' = <<>>
    /\ UNCHANGED <<viewFunction, midiButtonMap, sysexMessageCodes, blinkSpeed,
                   renderTask, wire, frameBytes, restarted>>
    /\ IF buttonId = 0
       THEN /\ result' = "InvalidButtonId"
            /\ UNCHANGED <<buttonStates, orphanTasks>>
       ELSE IF ~midiButtonMap.defined
       THEN \* getButton returns null: null.clear()
            /\ result' = "TypeError"
            /\ UNCHANGED <<buttonStates, orphanTasks>>
       ELSE LET key == getButton(midiButtonMap, buttonId)
                bs  == Tracked(buttonStates, key, viewFunction, blinkSpeed)
                cleared == [bs EXCEPT ![key] = ButtonClear(@)]
            IN /\ buttonStates' = Splice(cleared, buttonId)
               /\ orphanTasks' =
                     IF buttonId \in DOMAIN cleared
                        /\ cleared[buttonId].liveTasks > 0
                     THEN orphanTasks \cup {cleared[buttonId].buttonId}
                     ELSE orphanTasks
               /\ result' = "ok"

\* The test of the running task forgotten: every call starts a Task.
renderStartUnguarded ==
    /\ Idle
    /\ renderTask' = [set |-> TRUE, live |-> renderTask.live + 1]
    /\ lastOp' = "renderStart"
    /\ emitted' = <<>>
    /\ result' = "ok"
    /\ UNCHANGED <<viewFunction, buttonStates, midiButtonMap, sysexMessageCodes,
                   blinkSpeed, orphanTasks, wire, frameBytes, restarted>>

\* renderStart and renderStop, OHM64.js 77-97.
renderStart ==
    /\ Idle
    /\ renderTask' = IF renderTask.set THEN renderTask
                     ELSE [set |-> TRUE, live |-> renderTask.live + 1]
    /\ lastOp' = "renderStart"
    /\ emitted' = <<>>
    /\ result' = "ok"
    /\ UNCHANGED <<viewFunction, buttonStates, midiButtonMap, sysexMessageCodes,
                   blinkSpeed, orphanTasks, wire, frameBytes, restarted>>

renderStop ==
    /\ Idle
    /\ renderTask' = IF renderTask.set
                     THEN [set |-> FALSE, live |-> renderTask.live - 1]
                     ELSE renderTask
    /\ lastOp' = "renderStop"
    /\ emitted' = <<>>
    /\ result' = "ok"
    /\ UNCHANGED <<viewFunction, buttonStates, midiButtonMap, sysexMessageCodes,
                   blinkSpeed, orphanTasks, wire, frameBytes, restarted>>

\* The callback of the render Task: this.sync().
renderCallback ==
    /\ Idle
    /\ renderTask.live > 0
    /\ LET s == sync(midiButtonMap, viewFunction, blinkSpeed, buttonStates)
       IN /\ buttonStates' = s.bs
          /\ emitted' = <<s.frame>>
    /\ lastOp' = "render"
    /\ result' = "ok"
    /\ UNCHANGED <<viewFunction, midiButtonMap, sysexMessageCodes, blinkSpeed,
                   renderTask, orphanTasks, wire, frameBytes, restarted>>

\* init(), OHM64.js 68-75, sent again as a message.
init ==
    /\ Idle
    /\ viewFunction' = VIEW_TRIGGER
    /\ blinkSpeed' = 100
    /\ LET s == sync(midiButtonMap, VIEW_TRIGGER, 100, Empty)
       IN /\ buttonStates' = s.bs
          /\ emitted' = <<RequestButtonMap, s.frame>>
    /\ lastOp' = "init"
    /\ result' = "ok"
    /\ UNCHANGED <<midiButtonMap, sysexMessageCodes, renderTask, wire, frameBytes, restarted>>
    /\ \E visitAdded \in BOOLEAN :
          orphanTasks' = orphanTasks
              \cup ClearAllOrphans(midiButtonMap, buttonStates, visitAdded)

\* One timer for all the Buttons: a firing flips every blinking Button.
blinkCallbackShared(key) ==
    /\ Idle
    /\ key \in DOMAIN buttonStates
    /\ buttonStates[key].liveTasks > 0
    /\ buttonStates' = [k \in DOMAIN buttonStates |->
                           IF buttonStates[k].liveTasks > 0
                           THEN BlinkCallback(buttonStates[k])
                           ELSE buttonStates[k]]
    /\ lastOp' = "blink"
    /\ emitted' = <<>>
    /\ result' = "ok"
    /\ UNCHANGED <<viewFunction, midiButtonMap, sysexMessageCodes, blinkSpeed,
                   renderTask, orphanTasks, wire, frameBytes, restarted>>

\* A blink Task of the tracked Button under key fires.
blinkCallback(key) ==
    /\ Idle
    /\ key \in DOMAIN buttonStates
    /\ buttonStates[key].liveTasks > 0
    /\ buttonStates' = [buttonStates EXCEPT ![key] = BlinkCallback(@)]
    /\ lastOp' = "blink"
    /\ emitted' = <<>>
    /\ result' = "ok"
    /\ UNCHANGED <<viewFunction, midiButtonMap, sysexMessageCodes, blinkSpeed,
                   renderTask, orphanTasks, wire, frameBytes, restarted>>

\* A blink Task of a Button that is no longer tracked fires: it flips the
\* state of an object nothing else reads.
orphanCallback(buttonId) ==
    /\ Idle
    /\ buttonId \in orphanTasks
    /\ lastOp' = "orphanBlink"
    /\ emitted' = <<>>
    /\ result' = "ok"
    /\ UNCHANGED <<viewFunction, buttonStates, midiButtonMap, sysexMessageCodes,
                   blinkSpeed, renderTask, orphanTasks, wire, frameBytes, restarted>>

\* Ohm64_Button.setBlinkSpeed, OHM64.js 463-469: the stored interval (the
\* interval of the Task the Button names follows it).
ButtonSetBlinkSpeed(b, speed) == [b EXCEPT !.blinkSpeed = speed]

\* setBlinkSpeed(blinkSpeed) without an id, OHM64.js 211-224: the default
\* and every tracked Button.
setBlinkSpeedAll(speed) ==
    /\ Idle
    /\ blinkSpeed' = speed
    /\ buttonStates' = [k \in DOMAIN buttonStates |->
                           ButtonSetBlinkSpeed(buttonStates[k], speed)]
    /\ lastOp' = "setBlinkSpeed"
    /\ emitted' = <<>>
    /\ result' = "ok"
    /\ UNCHANGED <<viewFunction, midiButtonMap, sysexMessageCodes, renderTask,
                   orphanTasks, wire, frameBytes, restarted>>

\* setBlinkSpeed(blinkSpeed, buttonId): the Button getButton(buttonId)
\* returns, made if absent.
setBlinkSpeed(speed, buttonId) ==
    /\ Idle
    /\ lastOp' = "setBlinkSpeed"
    /\ emitted' = <<>>
    /\ UNCHANGED <<viewFunction, midiButtonMap, sysexMessageCodes, blinkSpeed,
                   renderTask, orphanTasks, wire, frameBytes, restarted>>
    /\ IF ~midiButtonMap.defined
       THEN \* buttons = [null]: null.setBlinkSpeed(blinkSpeed)
            /\ result' = "TypeError"
            /\ UNCHANGED buttonStates
       ELSE LET key == getButton(midiButtonMap, buttonId)
                bs  == Tracked(buttonStates, key, viewFunction, blinkSpeed)
            IN /\ buttonStates' =
                     [bs EXCEPT ![key] = ButtonSetBlinkSpeed(@, speed)]
               /\ result' = "ok"

FactoryReset == <<240, 0, 1, 97, 2, 6, 247>>

\* factoryReset(), OHM64.js 295-298.
factoryReset ==
    /\ Idle
    /\ emitted' = <<FactoryReset>>
    /\ lastOp' = "factoryReset"
    /\ result' = "ok"
    /\ UNCHANGED <<viewFunction, buttonStates, midiButtonMap, sysexMessageCodes,
                   blinkSpeed, renderTask, orphanTasks, wire, frameBytes, restarted>>

\* requestMidiButtonMap(), OHM64.js 303-306.
requestMidiButtonMap ==
    /\ Idle
    /\ emitted' = <<RequestButtonMap>>
    /\ lastOp' = "requestMidiButtonMap"
    /\ result' = "ok"
    /\ UNCHANGED <<viewFunction, buttonStates, midiButtonMap, sysexMessageCodes,
                   blinkSpeed, renderTask, orphanTasks, wire, frameBytes, restarted>>

Keys == (0..63) \cup {undefined}

Next ==
    \/ \E message \in MainMessages : DeviceReply(message)
    \/ parseSysexCode
    \/ \E note \in Notes, value \in 0..MaxValue : buttonPress(note, value)
    \/ \E states \in ValidLists : setStatesFromArray(states)
    \/ \E name \in Views : setViewFunction(name)
    \/ clearAll
    \/ \E buttonId \in Notes \ {0} : clear(buttonId)
    \/ renderStart
    \/ renderStop
    \/ renderCallback
    \/ init
    \/ \E key \in Keys : blinkCallback(key)
    \/ \E buttonId \in Keys : orphanCallback(buttonId)

Spec == Init /\ [][Next]_vars

\* The decoder under all the traffic of Messages, sent at any time, with
\* presses of note 5, which some of the maps know and the others do not.

NextSysex ==
    \/ \E message \in Messages : DeviceSend(message)
    \/ parseSysexCode
    \/ buttonPress(5, BUTTON_ON)

SpecSysex == Init /\ [][NextSysex]_vars

\* The reply of SpecCalls: a button map of one pair, note 1 for id 0, which
\* leaves note 0 without an id.
PartialMapMessages == { Frame(11, <<1, 0>>) }

\* Every call of the interface, with the arguments it refuses among the
\* arguments it takes.
NextCalls ==
    \/ \E message \in PartialMapMessages : DeviceReply(message)
    \/ parseSysexCode
    \/ \E note \in Notes, value \in 0..MaxValue : buttonPress(note, value)
    \/ \E states \in StateLists : setStatesFromArray(states)
    \/ \E name \in ViewNames : setViewFunction(name)
    \/ clearAll
    \/ \E buttonId \in Notes : clear(buttonId)
    \/ factoryReset
    \/ requestMidiButtonMap
    \/ init
    \/ \E key \in Keys : blinkCallback(key)
    \/ \E buttonId \in Keys : orphanCallback(buttonId)

SpecCalls == Init /\ [][NextCalls]_vars

\* The blink speeds given to setBlinkSpeed: the default of init() and another.
Speeds == {50, 100}

\* The Buttons and their blink Tasks under presses, lists, clears, changes
\* of view and of blink speed, and the firing of the Tasks.
NextBlink ==
    \/ \E message \in MainMessages : DeviceReply(message)
    \/ parseSysexCode
    \/ \E note \in Notes, value \in 0..MaxValue : buttonPress(note, value)
    \/ \E states \in ValidLists : setStatesFromArray(states)
    \/ \E name \in Views : setViewFunction(name)
    \/ clearAll
    \/ \E buttonId \in Notes \ {0} : clear(buttonId)
    \/ \E speed \in Speeds : setBlinkSpeedAll(speed)
    \/ \E speed \in Speeds, buttonId \in Notes : setBlinkSpeed(speed, buttonId)
    \/ \E key \in Keys : blinkCallback(key)
    \/ \E buttonId \in Keys : orphanCallback(buttonId)

SpecBlink == Init /\ [][NextBlink]_vars

\* The notes pressed and the ids cleared in SpecClear.
ClearNotes == {1, 2}

\* The reply of SpecClear: the identity map of notes 0, 1 and 2.
IdentityMapMessages == { Frame(11, IdentityPairs(3)) }

\* clear(id) under a map that gives every note its own number as id, with a
\* Button tracked above the id cleared.
NextClear ==
    \/ \E message \in IdentityMapMessages : DeviceReply(message)
    \/ parseSysexCode
    \/ \E note \in ClearNotes, value \in 0..MaxValue : buttonPress(note, value)
    \/ \E name \in Views : setViewFunction(name)
    \/ \E buttonId \in ClearNotes : clear(buttonId)
    \/ \E key \in Keys : blinkCallback(key)

SpecClear == Init /\ [][NextClear]_vars

\* The note of SpecMap, above the 64 numbers of the mask table.
HighNote == 64

\* The replies of SpecMap: a button map that gives id 0 to the note 64, a
\* frame of operation 6, a frame of operation 127 and a button map under a
\* header that is not the device's.
MapMessages ==
    { Frame(11, <<HighNote, 0>>),
      Frame(6, <<>>),
      Frame(127, <<1>>),
      <<240, 0, 2, 97, 2, 11, 1, 0, 247>> }

\* Every kind of step the Surface takes, over replies of every kind.
NextMap ==
    \/ \E message \in MapMessages : DeviceReply(message)
    \/ parseSysexCode
    \/ \E value \in {BUTTON_OFF, BUTTON_ON} : buttonPress(HighNote, value)
    \/ setStatesFromArray(StateList(64, {0}))
    \/ \E name \in Views : setViewFunction(name)
    \/ clearAll
    \/ clear(1)
    \/ setBlinkSpeedAll(50)
    \/ setBlinkSpeed(50, HighNote)
    \/ renderStart
    \/ renderStop
    \/ renderCallback
    \/ init
    \/ \E key \in Keys : blinkCallback(key)
    \/ \E buttonId \in Keys : orphanCallback(buttonId)

SpecMap == Init /\ [][NextMap]_vars

\* renderStart and renderStop sent in any order, the render Task firing
\* between presses.
NextRender ==
    \/ \E message \in MainMessages : DeviceReply(message)
    \/ parseSysexCode
    \/ \E note \in Notes, value \in 0..MaxValue : buttonPress(note, value)
    \/ renderStart
    \/ renderStop
    \/ renderCallback

SpecRender == Init /\ [][NextRender]_vars

\* The keys whose blink Task the scheduler is taken to serve.
BlinkKeys == {0, 1}

\* The note resolves to a Button that blinks: a press of it with a
\* non-zero value is a stop press.
IsBlinking(note) ==
    /\ midiButtonMap.defined
    /\ LET key == getButton(midiButtonMap, note)
       IN /\ key \in DOMAIN buttonStates
          /\ buttonStates[key].isBlinking = "true"

\* Blinking Buttons that nothing stops: the Blink view is chosen before the
\* first Button is made, and from then on come start presses, releases,
\* lists and both forms of setBlinkSpeed, and the firings of the Tasks; no
\* stop press, no clear and no change of view.
NextLive ==
    \/ \E message \in MainMessages : DeviceReply(message)
    \/ parseSysexCode
    \/ buttonStates = Empty /\ setViewFunction(VIEW_BLINK)
    \/ \E note \in Notes, value \in 0..MaxValue :
          /\ value = 0 \/ ~IsBlinking(note)
          /\ buttonPress(note, value)
    \/ \E states \in ValidLists : setStatesFromArray(states)
    \/ \E speed \in Speeds : setBlinkSpeedAll(speed)
    \/ \E speed \in Speeds, buttonId \in Notes : setBlinkSpeed(speed, buttonId)
    \/ \E key \in Keys : blinkCallback(key)

\* Task.repeat(): the scheduler runs the callback of a Task again and
\* again for as long as the Task is not cancelled.
SpecLive ==
    /\ Init
    /\ [][NextLive]_vars
    /\ \A key \in BlinkKeys : WF_vars(blinkCallback(key))

-----------------------------------------------------------------------------
(* Properties of setStatesFromArray and sync *)

\* The last handler called sync: the constructor and init() emit the
\* button-map request and then the sync frame, the render Task the frame.
SyncEmitted == lastOp \in {"new", "init", "render"}

SyncFrame == IF lastOp = "render" THEN emitted[1] ELSE emitted[2]

\* The low (half = 0) or high (half = 1) value of a column in a sync frame.
ColumnValue(frame, column, half) == frame[7 + 2 * column + half]

\* Bit e of n.
Bit(n, e) == (n \div (2 ^ e)) % 2

\* The bit of cell i of a column in a sync frame: cells 0..6 are bits 0..6
\* of the low value, cells 7..13 bits 0..6 of the high value.
CellBit(frame, column, i) == Bit(ColumnValue(frame, column, i \div 7), i % 7)

\* The keys of the tracked Buttons whose id is buttonId.
WithId(buttonId) ==
    {k \in DOMAIN buttonStates : buttonStates[k].buttonId = buttonId}

\* C1: with a ButtonMap established, after setStatesFromArray(V) the state
\* of the Button with ButtonId i equals V[i], for every i in 0..63.
C1_ReadBackById ==
    [][\A states \in ValidLists :
          (midiButtonMap.defined /\ setStatesFromArray(states))
          => \A i \in 0..63 :
                \A k \in DOMAIN buttonStates' :
                    buttonStates'[k].buttonId = i
                    => buttonStates'[k].state = Boolean(states[i + 1])]_vars

\* C2: in every sync the cell i of a column has exponent i mod 7, in the
\* low value for cells 0..6 and in the high value for cells 7..13, and a
\* cell that holds a ButtonId contributes 2^exponent exactly when the
\* Button with that id is OFF, and 0 when it is ON.
C2_ActiveLowCells ==
    SyncEmitted =>
        \A column \in 0..5, i \in 0..13 :
            LET index == OHM64_INDEX_MASK[column + 1][i + 1]
            IN index # null =>
                  \A k \in WithId(index) :
                      CellBit(SyncFrame, column, i)
                          = IF Truthy(buttonStates[k].state) THEN 0 ELSE 1

\* C3: two state vectors that differ only in ButtonId 0 give sync frames
\* that differ in bit 0 of the low value of column 0 and nowhere else.
\* The second vector is the current one with Button 0 flipped.
C3_FlipButton0 ==
    (SyncEmitted /\ WithId(0) # {}) =>
        LET k == CHOOSE x \in WithId(0) : TRUE
            flipped == [buttonStates EXCEPT ![k].state =
                           IF Truthy(@) THEN JsNum(BUTTON_OFF)
                           ELSE JsNum(BUTTON_ON)]
            other == sync(midiButtonMap, viewFunction, blinkSpeed,
                          flipped).frame
        IN \A j \in 1..Len(SyncFrame) :
              IF j = 7
              THEN /\ other[j] # SyncFrame[j]
                   /\ other[j] \div 2 = SyncFrame[j] \div 2
              ELSE other[j] = SyncFrame[j]

\* C4: every frame sync emits is 240,0,1,97,2,4, six (low, high) pairs and
\* 247, 19 bytes in all, with every low and high value in 0..127.
C4_SyncFrameShape ==
    SyncEmitted =>
        /\ Len(SyncFrame) = 19
        /\ SubSeq(SyncFrame, 1, 6) = <<240, 0, 1, 97, 2, 4>>
        /\ SyncFrame[19] = 247
        /\ \A j \in 7..18 : SyncFrame[j] \in 0..127

\* A sync frame of a Trigger Button that holds a raw press value.
C4_Witness ==
    /\ lastOp = "render"
    /\ \E k \in DOMAIN buttonStates : buttonStates[k].state.v > 1

\* C5, as claimed: a null cell of the mask contributes 0 in every sync, so
\* the bits of the padding positions are never set.
C5_NullCellsContributeZero ==
    SyncEmitted =>
        \A column \in 0..5, i \in 0..13 :
            OHM64_INDEX_MASK[column + 1][i + 1] = null
            => CellBit(SyncFrame, column, i) = 0

\* C5, amended: a null cell of the mask contributes 2^exponent in every
\* sync, whatever the button states are: the bits of the padding positions
\* are set in every sync frame.
C5_NullCellsContributePower ==
    SyncEmitted =>
        \A column \in 0..5, i \in 0..13 :
            OHM64_INDEX_MASK[column + 1][i + 1] = null
            => CellBit(SyncFrame, column, i) = 1

\* A sync frame with a ButtonMap and a Button that is on.
C5_Witness ==
    /\ lastOp = "render"
    /\ midiButtonMap.defined
    /\ \E k \in DOMAIN buttonStates : Truthy(buttonStates[k].state)

-----------------------------------------------------------------------------
(* Properties of the sysex decoder, under SpecSysex *)

\* frame is 240,0,1,97,2, an operation byte, any payload, 247.
WellFormedFrame(frame) ==
    /\ Len(frame) >= 7
    /\ SubSeq(frame, 1, 5) = <<240, 0, 1, 97, 2>>
    /\ frame[Len(frame)] = 247

Payload(frame) == SubSeq(frame, 7, Len(frame) - 1)

\* The ids k with 0 <= 2k < length(p).
PayloadIds(p) == {k \in 0..Len(p) : 2 * k < Len(p)}

\* p[2k], the positions of p counted from 0.
PayloadNote(p, k) == p[2 * k + 1]

\* C6: feeding a valid frame with operation 11 and payload p makes the
\* ButtonMap exactly {p[2k] -> k : 0 <= 2k < length(p)}: its notes are the
\* bytes at the even positions of p and nothing else, and each has the id
\* of its position (of its last position, should p repeat a note).
C6_ButtonMapDecoded ==
    (/\ lastOp = "sysex"
     /\ WellFormedFrame(frameBytes)
     /\ frameBytes[6] = 11)
    => LET p == Payload(frameBytes)
       IN /\ midiButtonMap.defined
          /\ DOMAIN midiButtonMap.m
                = {PayloadNote(p, k) : k \in PayloadIds(p)}
          /\ \A k \in PayloadIds(p) :
                (\A later \in PayloadIds(p) :
                    later > k => PayloadNote(p, later) # PayloadNote(p, k))
                => midiButtonMap.m[PayloadNote(p, k)] = k

\* The map 5 -> 0, 9 -> 1, 13 -> 2 has just replaced a map without note 5
\* (under which the press of note 5 made the Button of no id).
C6_Witness ==
    /\ lastOp = "sysex"
    /\ frameBytes = Frame(11, <<5, 0, 9, 0, 13, 0>>)
    /\ midiButtonMap.m = (5 :> 0) @@ (9 :> 1) @@ (13 :> 2)
    /\ undefined \in DOMAIN buttonStates

\* C7: when 247 is fed, the frame is accepted iff the bytes fed since the
\* most recent start marker are 240,0,1,97,2, an operation byte, any
\* payload, 247; in every other case InvalidFrame is reported and the
\* ButtonMap and the tracked Buttons are unchanged.
C7_ValidIffPattern ==
    [][(wire # <<>> /\ Head(wire) = 247)
       => IF WellFormedFrame(frameBytes')
          THEN result' = "valid"
          ELSE /\ result' = "InvalidFrame"
               /\ UNCHANGED <<midiButtonMap, buttonStates>>]_vars

\* C8: a step that feeds a code other than 247 decodes no frame, reports
\* no InvalidFrame and leaves the ButtonMap unchanged.
C8_NoEndNoDecode ==
    [][(wire # <<>> /\ Head(wire) # 247)
       => /\ midiButtonMap' = midiButtonMap
          /\ result' \notin {"valid", "InvalidFrame"}]_vars

\* A message without end marker has been fed whole.
C8_Witness ==
    /\ lastOp = "sysex"
    /\ wire = <<>>
    /\ frameBytes = <<240, 0, 1, 97, 2, 11, 5, 0>>

-----------------------------------------------------------------------------
(* Properties of the view functions *)

\* The Button buttonPress(note, ..) resolves, as press finds it.
Pressed(note) ==
    Tracked(buttonStates, getButton(midiButtonMap, note), viewFunction,
            blinkSpeed)[getButton(midiButtonMap, note)]

\* C9: under the Toggle view a press with a non-zero input flips the
\* Button's state and a press with a zero input leaves it unchanged,
\* whoever wrote the state before.
C9_TogglePress ==
    [][\A note \in Notes, value \in 0..MaxValue :
          (/\ midiButtonMap.defined
           /\ buttonPress(note, value)
           /\ Pressed(note).viewFunction = VIEW_TOGGLE)
          => LET after == buttonStates'[getButton(midiButtonMap, note)].state
             IN IF value = 0
                THEN after = Pressed(note).state
                ELSE /\ after \in {JsNum(BUTTON_OFF), JsNum(BUTTON_ON)}
                     /\ Truthy(after) = ~Truthy(Pressed(note).state)]_vars

\* A press has left a Toggle Button on.
C9_Witness ==
    /\ lastOp = "button"
    /\ \E k \in DOMAIN buttonStates :
          /\ buttonStates[k].viewFunction = VIEW_TOGGLE
          /\ buttonStates[k].state = JsNum(BUTTON_ON)

\* C10: under the Trigger view press(v) sets the Button's state to v,
\* whatever it was, and changes no other Button.
C10_TriggerPress ==
    [][\A note \in Notes, value \in 0..MaxValue :
          (/\ midiButtonMap.defined
           /\ buttonPress(note, value)
           /\ Pressed(note).viewFunction = VIEW_TRIGGER)
          => LET key == getButton(midiButtonMap, note)
             IN /\ buttonStates'[key].state = JsNum(value)
                /\ \A k \in DOMAIN buttonStates' \ {key} :
                      /\ k \in DOMAIN buttonStates
                      /\ buttonStates'[k] = buttonStates[k]]_vars

\* A press has released one Trigger Button while another is held.
C10_Witness ==
    /\ lastOp = "button"
    /\ \E k1, k2 \in DOMAIN buttonStates :
          /\ buttonStates[k1].viewFunction = VIEW_TRIGGER
          /\ buttonStates[k1].state = JsNum(BUTTON_OFF)
          /\ buttonStates[k2].state.v > 1

\* C11: under the Blink view the qualifying presses alternate: a non-zero
\* press of a Button that is not blinking starts a timer and sets
\* isBlinking, a non-zero press of a blinking Button cancels the timer,
\* clears isBlinking and forces the state off; a zero press changes
\* nothing of the Button.
C11_BlinkPresses ==
    [][\A note \in Notes, value \in 0..MaxValue :
          (/\ midiButtonMap.defined
           /\ buttonPress(note, value)
           /\ Pressed(note).viewFunction = VIEW_BLINK)
          => LET before == Pressed(note)
                 after  == buttonStates'[getButton(midiButtonMap, note)]
             IN IF value = 0 THEN after = before
                ELSE IF before.isBlinking = "true"
                THEN /\ before.blinkTask = "running"
                     /\ after.blinkTask = "cancelled"
                     /\ after.liveTasks = before.liveTasks - 1
                     /\ after.isBlinking = "false"
                     /\ after.state = JsNum(BUTTON_OFF)
                ELSE /\ after.blinkTask = "running"
                     /\ after.liveTasks = before.liveTasks + 1
                     /\ after.isBlinking = "true"
                     /\ after.state = before.state]_vars

\* A press has stopped a Blink Button that an earlier press had started.
C11_Witness ==
    /\ lastOp = "button"
    /\ \E k \in DOMAIN buttonStates :
          /\ buttonStates[k].viewFunction = VIEW_BLINK
          /\ buttonStates[k].isBlinking = "false"
          /\ buttonStates[k].blinkTask = "cancelled"

-----------------------------------------------------------------------------
(* Properties of clear *)

\* A tracked Button of bs with this id has a Task that repeats.
HasLiveTimer(bs, buttonId) ==
    \E k \in DOMAIN bs : bs[k].buttonId = buttonId /\ bs[k].liveTasks > 0

\* C12: with a ButtonMap, after clear(k) of a ButtonId k whose Button has a
\* live blink timer, that timer is live no more: neither on a tracked
\* Button of id k nor on the Button the call stopped tracking.
C12_ClearStopsTimer ==
    [][\A buttonId \in Notes :
          (/\ midiButtonMap.defined
           /\ HasLiveTimer(buttonStates, buttonId)
           /\ clear(buttonId))
          => /\ ~HasLiveTimer(buttonStates', buttonId)
             /\ buttonId \notin orphanTasks' \ orphanTasks]_vars

\* C13: after setViewFunction with a valid name, and after clear() with no
\* id, no Button is tracked and no blink timer started before the call is
\* still live.
C13_ClearAllStopsTimers ==
    [][((\E name \in Views : setViewFunction(name)) \/ clearAll)
       => /\ buttonStates' = Empty
          /\ orphanTasks' \subseteq orphanTasks]_vars

\* C14: clear(id) succeeds for every id, 0 included: it resets the Button
\* of that id and stops tracking it, timer cancelled, so that the next
\* reference to the id makes a fresh Button.
C14_ClearAnyId ==
    [][\A buttonId \in Notes :
          (midiButtonMap.defined /\ clear(buttonId))
          => /\ result' = "ok"
             /\ \A k \in DOMAIN buttonStates' :
                   buttonStates'[k].buttonId # buttonId
             /\ buttonId \notin orphanTasks' \ orphanTasks]_vars

-----------------------------------------------------------------------------
(* Properties of the calls that are refused, under SpecCalls *)

\* C15: as long as no button map has been decoded no Button is tracked,
\* and a press of any note with any value changes no Button and reports
\* UnresolvedButton.
C15_NoMapNoButtons ==
    [][~midiButtonMap.defined
       => /\ buttonStates = Empty
          /\ \A note \in Notes, value \in 0..MaxValue :
                buttonPress(note, value)
                => /\ buttonStates' = buttonStates
                   /\ result' = "UnresolvedButton"]_vars

\* C16: setStatesFromArray with a list of a length other than 64 reports
\* InvalidStateArray and changes nothing: no Button, no state, no timer,
\* and no frame is emitted.
C16_WrongLengthRejected ==
    [][\A states \in StateLists :
          (Len(states) # 64 /\ setStatesFromArray(states))
          => /\ result' = "InvalidStateArray"
             /\ emitted' = <<>>
             /\ UNCHANGED <<viewFunction, buttonStates, midiButtonMap,
                            blinkSpeed, renderTask, orphanTasks>>]_vars

\* A list of a wrong length has been refused while a Button is blinking.
C16_Witness ==
    /\ lastOp = "list"
    /\ result = "InvalidStateArray"
    /\ \E k \in DOMAIN buttonStates : buttonStates[k].liveTasks > 0

\* C17: setViewFunction with a name that is no view function reports
\* InvalidViewFunction and changes nothing.
C17_BadViewRejected ==
    [][\A name \in ViewNames \ Views :
          setViewFunction(name)
          => /\ result' = "InvalidViewFunction"
             /\ UNCHANGED <<viewFunction, buttonStates, orphanTasks>>]_vars

\* C18: factoryReset emits the one frame 240,0,1,97,2,6,247 and
\* requestMidiButtonMap the one frame 240,0,1,97,2,7,11,247, and neither
\* changes the state.
C18_FixedFrames ==
    [][/\ factoryReset
          => /\ emitted' = << <<240, 0, 1, 97, 2, 6, 247>> >>
             /\ UNCHANGED <<viewFunction, buttonStates, midiButtonMap,
                            blinkSpeed, renderTask, orphanTasks>>
       /\ requestMidiButtonMap
          => /\ emitted' = << <<240, 0, 1, 97, 2, 7, 11, 247>> >>
             /\ UNCHANGED <<viewFunction, buttonStates, midiButtonMap,
                            blinkSpeed, renderTask, orphanTasks>>]_vars

\* The button map has been requested while Buttons are tracked.
C18_Witness ==
    /\ lastOp = "requestMidiButtonMap"
    /\ midiButtonMap.defined
    /\ buttonStates # Empty

-----------------------------------------------------------------------------
(* Properties of the tracked Buttons *)

\* C19: every tracked Button is stored under, and carries, an id that is
\* an integer in 0..63.
C19_IdsInRange ==
    \A k \in DOMAIN buttonStates :
        k \in 0..63 /\ buttonStates[k].buttonId \in 0..63

\* C20: every Button has at most one blink Task that repeats, the one its
\* handle names: no call starts a second one while the first is live.
C20_OneTimerPerButton ==
    \A k \in DOMAIN buttonStates :
        /\ buttonStates[k].liveTasks \in {0, 1}
        /\ buttonStates[k].liveTasks = 1
              <=> buttonStates[k].blinkTask = "running"

\* A Button blinks at a speed set after its Task was started or before.
C20_Witness ==
    /\ lastOp = "setBlinkSpeed"
    /\ \E k \in DOMAIN buttonStates :
          /\ buttonStates[k].liveTasks = 1
          /\ buttonStates[k].blinkSpeed = 50
          /\ buttonStates[k].state = JsBool(TRUE)

\* The sync frame of the Surface with every Button off.
AllOffFrame == sync(midiButtonMap, viewFunction, blinkSpeed, Empty).frame

\* The Button with id buttonId is on and every other tracked Button is off.
OnlyOn(buttonId) ==
    /\ WithId(buttonId) # {}
    /\ \A k \in DOMAIN buttonStates :
          Truthy(buttonStates[k].state) <=> buttonStates[k].buttonId = buttonId

\* C21: with a ButtonMap established and the Trigger view, when a press of
\* note n has turned on the Button with id k = ButtonMap[n] and every other
\* Button is off, the next sync frame differs from the all-off frame in
\* exactly one bit, the bit of the mask cell holding k.
C21_PressedBitById ==
    \A n \in Notes :
       (/\ lastOp = "render"
        /\ midiButtonMap.defined
        /\ viewFunction = VIEW_TRIGGER
        /\ n \in DOMAIN midiButtonMap.m
        /\ midiButtonMap.m[n] \in 0..63
        /\ OnlyOn(midiButtonMap.m[n]))
       => \A column \in 0..5, i \in 0..13 :
             CellBit(SyncFrame, column, i) # CellBit(AllOffFrame, column, i)
                <=> OHM64_INDEX_MASK[column + 1][i + 1] = midiButtonMap.m[n]

-----------------------------------------------------------------------------
(* Properties of clear(id), the render task and the timers *)

\* C22: clear(id) changes only the Button with that id: every other tracked
\* Button stays tracked under the same key with the same state, isBlinking
\* flag and timer.
C22_ClearOnlyThatButton ==
    [][\A buttonId \in ClearNotes :
          (midiButtonMap.defined /\ clear(buttonId))
          => \A k \in DOMAIN buttonStates :
                buttonStates[k].buttonId # buttonId
                => /\ k \in DOMAIN buttonStates'
                   /\ buttonStates'[k] = buttonStates[k]]_vars

\* A press, a list or a clear that the Surface accepts.
AcceptedOperation ==
    /\ \/ \E note \in Notes, value \in 0..MaxValue : buttonPress(note, value)
       \/ \E states \in ValidLists : setStatesFromArray(states)
       \/ clearAll
       \/ \E buttonId \in Notes : clear(buttonId)
    /\ result' = "ok"

\* C23: while no render task runs, each accepted press, each accepted
\* setStatesFromArray and each clear emits one sync frame, which encodes
\* the states the operation leaves.
C23_SyncAfterOperation ==
    [][(renderTask.live = 0 /\ AcceptedOperation)
       => emitted' = <<sync(midiButtonMap', viewFunction', blinkSpeed',
                            buttonStates').frame>>]_vars

\* A step of the scheduler: a blink Task or the render Task fires.
TimerStep == lastOp' \in {"blink", "orphanBlink", "render"}

\* The Button had a blink Task and a press has stopped it.
Stopped(b) == b.isBlinking = "false" /\ b.blinkTask # "null"

\* C24: the press that stops a blinking Button leaves its state off, and no
\* later firing of a timer changes a stopped Button: the cancelled Task's
\* callback does not run again.
C24_StoppedStaysOff ==
    [][/\ \A note \in Notes, value \in 1..MaxValue :
             (/\ lastOp' = "button"
              /\ midiButtonMap.defined
              /\ Pressed(note).viewFunction = VIEW_BLINK
              /\ Pressed(note).isBlinking = "true"
              /\ buttonPress(note, value))
             => LET after == buttonStates'[getButton(midiButtonMap, note)]
                IN after.state = JsNum(BUTTON_OFF) /\ Stopped(after)
       /\ TimerStep
          => \A k \in DOMAIN buttonStates :
                Stopped(buttonStates[k])
                => /\ k \in DOMAIN buttonStates'
                   /\ buttonStates'[k] = buttonStates[k]]_vars

\* A blink Task fires while another Button, stopped by a press, is off.
C24_Witness ==
    /\ lastOp = "blink"
    /\ \E k \in DOMAIN buttonStates, j \in DOMAIN buttonStates :
          /\ buttonStates[k].blinkTask = "cancelled"
          /\ buttonStates[k].isBlinking = "false"
          /\ buttonStates[k].state = JsNum(BUTTON_OFF)
          /\ buttonStates[j].liveTasks > 0
          /\ buttonStates[j].state = JsNum(BUTTON_ON)

-----------------------------------------------------------------------------
(* Properties of the start marker and of the ButtonMap *)

\* C25: a start marker fed while a message is partially accumulated empties
\* the buffer and reports no error, and the valid frame fed after it is
\* decoded as the same frame fed alone: it is accepted, its payload is
\* what the buffer keeps, and the ButtonMap is the map of its payload when
\* its operation is 11 and the map of before otherwise.
C25_StartMarkerRestarts ==
    [][wire # <<>>
       => /\ Head(wire) = CODE_MESSAGE_START
             => /\ result' = "ok"
                /\ sysexMessageCodes' =
                      [defined |-> TRUE, codes |-> <<CODE_MESSAGE_START>>]
                /\ UNCHANGED <<midiButtonMap, buttonStates>>
          /\ (/\ restarted'
              /\ Head(wire) = CODE_MESSAGE_END
              /\ WellFormedFrame(frameBytes'))
             => LET alone == SysexMessage(frameBytes')
                IN /\ result' = "valid"
                   /\ sysexMessageCodes'.codes = alone.data
                   /\ midiButtonMap' =
                         IF alone.operation = OPERATION_BUTTON_MAP
                         THEN [defined |-> TRUE,
                               m |-> BuildButtonMap(alone.data)]
                         ELSE midiButtonMap
                   /\ UNCHANGED buttonStates]_vars

\* The frame of the map 5 -> 0, 9 -> 1, 13 -> 2 has been decoded after its
\* start marker discarded a message left without end marker.
C25_Witness ==
    /\ lastOp = "sysex"
    /\ restarted
    /\ wire = <<>>
    /\ result = "valid"
    /\ frameBytes = Frame(11, <<5, 0, 9, 0, 13, 0>>)
    /\ sysexMessageCodes.codes = <<5, 0, 9, 0, 13, 0>>
    /\ midiButtonMap.m = (5 :> 0) @@ (9 :> 1) @@ (13 :> 2)

\* C26: the ButtonMap changes only in the step that feeds the 247 of a
\* valid frame of operation 11; every other step leaves it as it is.
C26_MapChangesOnlyOnMapFrame ==
    [][midiButtonMap' # midiButtonMap
       => /\ wire # <<>>
          /\ Head(wire) = CODE_MESSAGE_END
          /\ WellFormedFrame(frameBytes')
          /\ frameBytes'[6] = 11]_vars

\* The map 64 -> 0 has outlived a re-initialization, a valid frame of
\* operation 6 and a press.
C26_Witness ==
    /\ lastOp = "button"
    /\ frameBytes = Frame(6, <<>>)
    /\ midiButtonMap = [defined |-> TRUE, m |-> (HighNote :> 0)]
    /\ 0 \in DOMAIN buttonStates
    /\ buttonStates[0].state = JsNum(BUTTON_ON)

-----------------------------------------------------------------------------
(* Properties of setBlinkSpeed and of the blink timers *)

\* C27: setBlinkSpeed(ms) sets the Surface's default and the interval of
\* every tracked Button to ms; setBlinkSpeed(ms, id) sets the interval of
\* the Button with that id and leaves the default and every other Button
\* as they are; neither changes a state, an isBlinking flag or a timer.
C27_SetBlinkSpeed ==
    [][lastOp' = "setBlinkSpeed"
       => /\ \A speed \in Speeds :
                setBlinkSpeedAll(speed)
                => /\ blinkSpeed' = speed
                   /\ buttonStates' =
                         [k \in DOMAIN buttonStates |->
                             [buttonStates[k] EXCEPT !.blinkSpeed = speed]]
          /\ \A speed \in Speeds, buttonId \in Notes :
                (midiButtonMap.defined /\ setBlinkSpeed(speed, buttonId))
                => /\ blinkSpeed' = blinkSpeed
                   /\ \E k \in DOMAIN buttonStates' :
                         buttonStates'[k].buttonId = buttonId
                   /\ \A k \in DOMAIN buttonStates' :
                         IF buttonStates'[k].buttonId = buttonId
                         THEN /\ buttonStates'[k].blinkSpeed = speed
                              /\ k \in DOMAIN buttonStates
                                 => buttonStates'[k] =
                                       [buttonStates[k]
                                           EXCEPT !.blinkSpeed = speed]
                         ELSE /\ k \in DOMAIN buttonStates
                              /\ buttonStates'[k] = buttonStates[k]]_vars

\* The Buttons after the blink Task of the Button under key has fired.
Fire(bs, key) == [bs EXCEPT ![key] = BlinkCallback(@)]

\* C28: a firing of a Button's blink Task changes the state of that Button
\* and nothing else, and the firings of two blinking Buttons commute: A
\* then B leaves the Buttons, and the sync frame of the Buttons, that B
\* then A leaves.
C28_TimerFiringsIndependent ==
    [][lastOp' = "blink"
       => \A a \in DOMAIN buttonStates :
             blinkCallback(a)
             => /\ DOMAIN buttonStates' = DOMAIN buttonStates
                /\ \A k \in DOMAIN buttonStates :
                      buttonStates'[k] =
                         IF k = a
                         THEN [buttonStates[k] EXCEPT
                                  !.state = buttonStates'[k].state]
                         ELSE buttonStates[k]
                /\ \A b \in DOMAIN buttonStates \ {a} :
                      buttonStates[b].liveTasks > 0
                      => LET ab == Fire(buttonStates', b)
                             ba == Fire(Fire(buttonStates, b), a)
                         IN /\ ab = ba
                            /\ sync(midiButtonMap, viewFunction, blinkSpeed,
                                    ab).frame
                               = sync(midiButtonMap, viewFunction, blinkSpeed,
                                      ba).frame]_vars

\* The blink Task of one Button has fired while another Button blinks, and
\* the two are in different states.
C28_Witness ==
    /\ lastOp = "blink"
    /\ \E a \in DOMAIN buttonStates, b \in DOMAIN buttonStates :
          /\ a # b
          /\ buttonStates[a].liveTasks > 0
          /\ buttonStates[b].liveTasks > 0
          /\ buttonStates[a].state = JsNum(BUTTON_ON)
          /\ buttonStates[b].state = JsNum(BUTTON_OFF)

-----------------------------------------------------------------------------
(* Properties of the render task and of the mask table *)

\* The fields of the Surface, the render Task aside.
SurfaceFields ==
    <<viewFunction, buttonStates, midiButtonMap, sysexMessageCodes,
      blinkSpeed, orphanTasks>>

\* C29: at most one render Task is live. renderStart while one runs starts
\* no second one, renderStop cancels the one running, after which no
\* render sync is emitted, renderStop with none running does nothing, and
\* renderStart with none running starts one.
C29_OneRenderTask ==
    [][/\ renderTask'.live <= 1
       /\ renderTask'.set <=> renderTask'.live = 1
       /\ renderStart
          => /\ renderTask' = [set |-> TRUE, live |-> 1]
             /\ renderTask.set => renderTask' = renderTask
             /\ emitted' = <<>>
             /\ UNCHANGED SurfaceFields
       /\ renderStop
          => /\ renderTask' = [set |-> FALSE, live |-> 0]
             /\ emitted' = <<>>
             /\ UNCHANGED SurfaceFields
       /\ lastOp' = "render" => renderTask.live = 1]_vars

\* renderStart arrives after the render Task has fired: the Task is still
\* running, or was stopped and is started again; one Task is live.
C29_Witness ==
    /\ lastOp = "renderStart"
    /\ renderTask = [set |-> TRUE, live |-> 1]
    /\ midiButtonMap.defined
    /\ undefined \in DOMAIN buttonStates

\* The cells of the mask table that hold buttonId.
CellsOf(buttonId) ==
    {cell \in (0..5) \X (0..13) :
        OHM64_INDEX_MASK[cell[1] + 1][cell[2] + 1] = buttonId}

\* The Buttons with the state of the Button under key changed, on to off
\* and off to on.
Flipped(key) ==
    [buttonStates EXCEPT ![key].state =
        IF Truthy(@) THEN JsNum(BUTTON_OFF) ELSE JsNum(BUTTON_ON)]

\* C30: every ButtonId in 0..63 is in exactly one cell of the mask table,
\* and the sync frame tells the button states apart: with a ButtonMap
\* established, changing the state of one Button with an id in 0..63
\* changes the frame sync emits.
C30_SyncInjective ==
    /\ \A buttonId \in 0..63 : Cardinality(CellsOf(buttonId)) = 1
    /\ (SyncEmitted /\ midiButtonMap.defined)
       => \A k \in DOMAIN buttonStates :
             buttonStates[k].buttonId \in 0..63
             => sync(midiButtonMap, viewFunction, blinkSpeed,
                     Flipped(k)).frame # SyncFrame

-----------------------------------------------------------------------------
(* Properties of the global view function and of blinking *)

\* C31: in every reachable state the view function of every tracked Button
\* is the Surface's current view function, after accepted and after
\* rejected calls of setViewFunction alike.
C31_ViewIsGlobal ==
    \A k \in DOMAIN buttonStates :
       buttonStates[k].viewFunction = viewFunction

\* A Button made under the Toggle view is on and tracked when a call of
\* setViewFunction with an unknown name is rejected.
C31_Witness ==
    /\ lastOp = "setViewFunction"
    /\ result = "ReferenceError"
    /\ viewFunction = VIEW_TOGGLE
    /\ \E k \in DOMAIN buttonStates :
          /\ buttonStates[k].viewFunction = VIEW_TOGGLE
          /\ buttonStates[k].state = JsNum(BUTTON_ON)

\* The blink Task of the Button under key is live.
Blinks(key) ==
    /\ key \in DOMAIN buttonStates
    /\ buttonStates[key].liveTasks > 0

\* C32: each firing of a blinking Button's Task flips its state, and under
\* weak fairness of the firings a Button that has started blinking and
\* meets no stop press, no clear and no change of view is on again and
\* again and off again and again, whatever lists and blink speeds arrive
\* in between.
C32_BlinksForever ==
    /\ [][lastOp' = "blink"
          => \A key \in BlinkKeys :
                blinkCallback(key)
                => Truthy(buttonStates'[key].state)
                      # Truthy(buttonStates[key].state)]_vars
    /\ \A key \in BlinkKeys :
          /\ Blinks(key) ~> (Blinks(key) /\ Truthy(buttonStates[key].state))
          /\ Blinks(key) ~> (Blinks(key) /\ ~Truthy(buttonStates[key].state))

\* The Task of a blinking Button has fired and lit it after a list wrote
\* the states and setBlinkSpeed changed the interval.
C32_Witness ==
    /\ lastOp = "blink"
    /\ undefined \in DOMAIN buttonStates
    /\ \E key \in BlinkKeys :
          /\ Blinks(key)
          /\ buttonStates[key].blinkSpeed = 50
          /\ buttonStates[key].state = JsNum(BUTTON_ON)

====
